---- MODULE Spec2Model ----
(***************************************************************************)
(* Zolapublish (Obsidian plugin): model of the sync engine                 *)
(* (src/src/syncManager.ts), of its two image-link transcoders and of the  *)
(* TOML front-matter parser (src/unnamed/part_000).                        *)
(*                                                                         *)
(* Text is a sequence of atoms.  An atom is one punctuation character      *)
(* ("!", "[", "]", "(", ")", ".", "/", "=", ",", a quote, a blank, a line  *)
(* feed) or a maximal run of other characters ("post_imgs", "tags").  The  *)
(* regular expressions of the source only ever look at the punctuation     *)
(* characters, at character classes and at whole words, so they are        *)
(* translated atom by atom.                                                *)
(***************************************************************************)
EXTENDS Integers, Sequences, FiniteSets, TLC

(***************************************************************************)
(* State.  given, texts, ops: a document and the transcodings applied to   *)
(* it.  article, frontmatter, parsed: an article and its parsed metadata.  *)
(* The other variables are the plugin, the two trees and the batch in      *)
(* progress; outcome, writes and before record what the batch did.         *)
(***************************************************************************)
VARIABLES given, texts, ops

VARIABLES article, frontmatter, parsed

VARIABLES settings, vault, disk, diskDirs, refused,
          pc, direction, files, idx, syncCount, errorCount,
          outcome, writes, before, logs, notice, runs

\* articles: the last list getArticles returned; clock: the time addLog
\* reads; added and vaultWrites record the entries given to addLog since the
\* log was last cleared (newest first) and the vault files the batch wrote
VARIABLES articles, clock, added, vaultWrites

\* inflight: the sync invocations the callers have started and that have not
\* returned; saved: the logs key of the persisted document (data.json);
\* settingsLogs: the logs key that loadSettings copied into plugin.settings;
\* loading: how far the loadLogs of the constructor has got
VARIABLES inflight, saved, settingsLogs, loading

hostVars == <<inflight, settingsLogs, loading>>

linkVars == <<given, texts, ops>>

fmVars == <<article, frontmatter, parsed>>

engineVars == <<settings, vault, disk, diskDirs, refused,
                pc, direction, files, idx, syncCount, errorCount,
                outcome, writes, before, logs, notice, runs,
                articles, clock, added, vaultWrites,
                inflight, saved, settingsLogs, loading>>

vars == <<linkVars, fmVars, engineVars>>

(***************************************************************************)
(* Generic helpers on sequences (String.prototype.startsWith and the       *)
(* behaviour of a greedy negated character class).                         *)
(***************************************************************************)
SetMin(S) == CHOOSE x \in S : \A y \in S : x <= y

\* s.substring(i-1).startsWith(pat): pat occurs in s at position i
StartsWithAt(s, i, pat) ==
    /\ i >= 1
    /\ i + Len(pat) - 1 <= Len(s)
    /\ SubSeq(s, i, i + Len(pat) - 1) = pat

StartsWith(s, pat) == StartsWithAt(s, 1, pat)

\* the position after a maximal run, from i, of atoms different from stop:
\* where [^stop]* (greedy) ends; Len(s)+1 when the run reaches the end
RunEnd(s, i, stop) ==
    LET C == {j \in i..Len(s) : s[j] = stop}
    IN  IF C = {} THEN Len(s) + 1 ELSE SetMin(C)

DropFirst(s, n) == SubSeq(s, n + 1, Len(s))

\* f with f[k] = v, whether k was in the domain of f or not
Put(f, k, v) == [x \in (DOMAIN f) \cup {k} |-> IF x = k THEN v ELSE f[x]]

\* s.split(sep)
RECURSIVE SplitOn(_, _)
SplitOn(s, sep) ==
    LET c == RunEnd(s, 1, sep)
    IN  IF c > Len(s) THEN <<s>>
        ELSE <<SubSeq(s, 1, c - 1)>> \o SplitOn(DropFirst(s, c), sep)

\* parts.join(sep)
RECURSIVE JoinWith(_, _)
JoinWith(parts, sep) ==
    IF parts = <<>> THEN <<>>
    ELSE IF Len(parts) = 1 THEN parts[1]
    ELSE parts[1] \o <<sep>> \o JoinWith(Tail(parts), sep)

RECURSIVE Flatten(_)
Flatten(ss) == IF ss = <<>> THEN <<>> ELSE Head(ss) \o Flatten(Tail(ss))

(***************************************************************************)
(* Link transcoder, outbound: convertImageLinks                            *)
(***************************************************************************)
ParentMarker  == <<".", ".", "/">>
CurrentMarker == <<".", "/">>
RootSep       == <<"/">>
WikiOpen      == <<"!", "[", "[">>
WikiClose     == <<"]", "]">>
MdOpen        == <<"!", "[">>
MdMiddle      == <<"]", "(">>
MdClose       == <<")">>

\* p.replace(/^pre/, '')
StripPrefix(p, pre) == IF StartsWith(p, pre) THEN DropFirst(p, Len(pre)) ELSE p

\* a faulty variant of CleanPath: no leading marker is removed
CleanPathKeepMarker(p) == IF StartsWith(p, RootSep) THEN p ELSE RootSep \o p

\* lines 205-210: both replace calls in a row, then the root separator
CleanPath(p) ==
    LET stripped == StripPrefix(StripPrefix(p, ParentMarker), CurrentMarker)
    IN  IF StartsWith(stripped, RootSep) THEN stripped ELSE RootSep \o stripped

\* /!\[\[([^\]]+)\]\]/ tried at position i: the position of the last atom
\* of the match, or 0.  The class is greedy and cannot give back an atom.
WikiMatchEnd(s, i) ==
    IF ~StartsWithAt(s, i, WikiOpen) THEN 0
    ELSE LET j == RunEnd(s, i + 3, "]")
         IN  IF j > i + 3 /\ StartsWithAt(s, j, WikiClose) THEN j + 1 ELSE 0

WikiPath(s, i) == SubSeq(s, i + 3, WikiMatchEnd(s, i) - 2)

\* the callback of the replace: `![](${cleanPath})`
OutboundReplacement(s, i) == MdOpen \o MdMiddle \o CleanPath(WikiPath(s, i)) \o MdClose

RECURSIVE ConvertFrom(_, _)
ConvertFrom(s, i) ==
    IF i > Len(s) THEN <<>>
    ELSE IF WikiMatchEnd(s, i) = 0 THEN <<s[i]>> \o ConvertFrom(s, i + 1)
    ELSE OutboundReplacement(s, i) \o ConvertFrom(s, WikiMatchEnd(s, i) + 1)

\* a faulty variant: the scan resumes one atom too late after a replacement
RECURSIVE ConvertFromSkipping(_, _)
ConvertFromSkipping(s, i) ==
    IF i > Len(s) THEN <<>>
    ELSE IF WikiMatchEnd(s, i) = 0 THEN <<s[i]>> \o ConvertFromSkipping(s, i + 1)
    ELSE OutboundReplacement(s, i) \o ConvertFromSkipping(s, WikiMatchEnd(s, i) + 2)

convertImageLinksSkipping(content) == ConvertFromSkipping(content, 1)

convertImageLinks(content) == ConvertFrom(content, 1)

(***************************************************************************)
(* Link transcoder, inbound: convertImageLinksToObsidian                   *)
(***************************************************************************)
\* /!\[([^\]]*)\]\(([^)]+)\)/ tried at position i: the position of the
\* closing parenthesis, or 0
MdMatchEnd(s, i) ==
    IF ~StartsWithAt(s, i, MdOpen) THEN 0
    ELSE LET j == RunEnd(s, i + 2, "]")
         IN  IF ~StartsWithAt(s, j, MdMiddle) THEN 0
             ELSE LET k == RunEnd(s, j + 2, ")")
                  IN  IF k > j + 2 /\ k <= Len(s) THEN k ELSE 0

MdAltEnd(s, i) == RunEnd(s, i + 2, "]")

MdPath(s, i) == SubSeq(s, MdAltEnd(s, i) + 2, MdMatchEnd(s, i) - 1)

\* a faulty variant: every matched reference is rewritten, rooted or not
InboundReplacementAlways(s, i) ==
    WikiOpen \o ParentMarker \o DropFirst(MdPath(s, i), 1) \o WikiClose

\* the callback of the replace, lines 275-285
InboundReplacement(s, i) ==
    IF StartsWith(MdPath(s, i), RootSep)
    THEN WikiOpen \o ParentMarker \o DropFirst(MdPath(s, i), 1) \o WikiClose
    ELSE SubSeq(s, i, MdMatchEnd(s, i))

RECURSIVE ConvertBackFrom(_, _)
ConvertBackFrom(s, i) ==
    IF i > Len(s) THEN <<>>
    ELSE IF MdMatchEnd(s, i) = 0 THEN <<s[i]>> \o ConvertBackFrom(s, i + 1)
    ELSE InboundReplacement(s, i) \o ConvertBackFrom(s, MdMatchEnd(s, i) + 1)

convertImageLinksToObsidian(content) == ConvertBackFrom(content, 1)

(***************************************************************************)
(* The transcoders applied to bounded documents.                           *)
(***************************************************************************)
MaxPathTokens == 3
MaxFreeTokens == 3
MaxTranscodings == 3

PathTokens == {ParentMarker, CurrentMarker, RootSep, <<"a">>}

RECURSIVE TokenSeqs(_, _)
TokenSeqs(T, n) ==
    IF n = 0 THEN {<<>>}
    ELSE LET shorter == TokenSeqs(T, n - 1)
         IN  shorter \cup {Append(q, t) : q \in {r \in shorter : Len(r) = n - 1}, t \in T}

\* paths of wiki-style references: non-empty, without "]"
WikiPaths ==
    {Flatten(q) : q \in TokenSeqs(PathTokens, MaxPathTokens) \ {<<>>}}
      \cup {<<".", ".", "/", "post_imgs", "/", "Mapper.png">>,
            <<"a", ")", "b">>, <<"/", "!", "[", "[", "a">>}

\* paths of standard references: non-empty, without ")"
MdPaths ==
    {Flatten(q) : q \in TokenSeqs(PathTokens, MaxPathTokens) \ {<<>>}}
      \cup {<<"/", "post_imgs", "/", "Mapper.png">>,
            <<"https:", "/", "/", "example.com", "/", "x.png">>,
            <<"/", "a", "]", "b">>, <<"/", "a", " ", "\"", "t", "\"">>}

AltTexts == {<<>>, <<"alt", " ", "text">>}

Contexts == {<<>>, <<"t">>}

FreeTokens == {WikiOpen, WikiClose, MdOpen, MdMiddle, MdClose,
               <<"[", "[">>, <<"/", "a">>, <<"!">>}

WikiRef(p) == WikiOpen \o p \o WikiClose

MdRef(alt, p) == MdOpen \o alt \o MdMiddle \o p \o MdClose

LinkInputs ==
    [kind : {"wiki"}, alt : {<<>>}, path : WikiPaths, pre : Contexts, post : Contexts]
      \cup [kind : {"md"}, alt : AltTexts, path : MdPaths, pre : Contexts, post : Contexts]
      \cup [kind : {"free"}, alt : {<<>>},
            path : {Flatten(q) : q \in TokenSeqs(FreeTokens, MaxFreeTokens)},
            pre : {<<>>}, post : {<<>>}]

Render(g) ==
    CASE g.kind = "wiki" -> g.pre \o WikiRef(g.path) \o g.post
      [] g.kind = "md"   -> g.pre \o MdRef(g.alt, g.path) \o g.post
      [] OTHER           -> g.path

InitLink ==
    /\ given \in LinkInputs
    /\ texts = <<Render(given)>>
    /\ ops = <<>>

Outbound ==
    /\ Len(ops) < MaxTranscodings
    /\ texts' = Append(texts, convertImageLinks(texts[Len(texts)]))
    /\ ops' = Append(ops, "out")
    /\ UNCHANGED <<given, fmVars, engineVars>>

Inbound ==
    /\ Len(ops) < MaxTranscodings
    /\ texts' = Append(texts, convertImageLinksToObsidian(texts[Len(texts)]))
    /\ ops' = Append(ops, "in")
    /\ UNCHANGED <<given, fmVars, engineVars>>

NextLink == Outbound \/ Inbound

(***************************************************************************)
(* Claims about the link transcoder (checked under SpecLink).              *)
(***************************************************************************)
MatchEndFor(op, s, i) == IF op = "out" THEN WikiMatchEnd(s, i) ELSE MdMatchEnd(s, i)

MatchStarts(op, s) == {i \in 1..Len(s) : MatchEndFor(op, s, i) # 0}

Covers(op, s, i, x) == i < x /\ x <= MatchEndFor(op, s, i)

\* the image-reference spans of s: the matches of the pattern that do not
\* begin inside an earlier reference span
ReferenceSpans(op, s) ==
    CHOOSE S \in SUBSET MatchStarts(op, s) :
        /\ \A i \in S : ~\E h \in S : Covers(op, s, h, i)
        /\ \A i \in MatchStarts(op, s) \ S : \E h \in S : Covers(op, s, h, i)

\* the spans of s between its reference spans, in order
RECURSIVE GapsFrom(_, _, _, _)
GapsFrom(op, s, from, S) ==
    IF S = {} THEN <<SubSeq(s, from, Len(s))>>
    ELSE LET i == SetMin(S)
         IN  <<SubSeq(s, from, i - 1)>> \o GapsFrom(op, s, MatchEndFor(op, s, i) + 1, S \ {i})

Gaps(op, s) == GapsFrom(op, s, 1, ReferenceSpans(op, s))

\* o is gaps[1], anything, gaps[2], anything, ..., gaps[n]
RECURSIVE KeepsGaps(_, _)
KeepsGaps(o, gaps) ==
    IF Len(gaps) = 1 THEN o = gaps[1]
    ELSE /\ StartsWith(o, gaps[1])
         /\ \E c \in Len(gaps[1])..Len(o) : KeepsGaps(DropFirst(o, c), Tail(gaps))

RootedTwice(t, pre) ==
    \/ StartsWithAt(t, Len(pre) + 5, <<"/", "/">>)
    \/ StartsWithAt(t, Len(pre) + 5, <<"/", ".", "/">>)

\* C7 as stated: out(in(out(r))) = out(r) for every wiki-style reference r,
\* and out(in(s)) = s for every site-rooted reference s with empty alt text.
C7_RoundTripAsStated ==
    /\ (given.kind = "wiki" /\ ops = <<"out", "in", "out">>) => texts[4] = texts[2]
    /\ (given.kind = "md" /\ given.alt = <<>> /\ StartsWith(given.path, RootSep)
          /\ ops = <<"in", "out">>) => texts[3] = texts[1]

\* C7 amended: the same two equalities for the references whose rooted path
\* does not begin with "//" or "/./" and, for s, does not contain "]".
C7_RoundTripAmended ==
    /\ (given.kind = "wiki" /\ ops = <<"out", "in", "out">>
          /\ ~RootedTwice(texts[2], given.pre)) => texts[4] = texts[2]
    /\ (given.kind = "md" /\ given.alt = <<>> /\ StartsWith(given.path, RootSep)
          /\ ops = <<"in", "out">>
          /\ ~RootedTwice(texts[1], given.pre)
          /\ \A x \in 1..Len(given.path) : given.path[x] # "]") => texts[3] = texts[1]

C7_Witness ==
    /\ given.kind = "wiki" /\ ops = <<"out", "in", "out">>
    /\ given.path = <<".", "/", "a">>
    /\ texts[3] # texts[1] /\ texts[4] = texts[2] /\ texts[2] # texts[1]

\* C8 as stated: `![[p]]` becomes `![](q)` where q is p without at most one
\* leading marker (one "../" or else one "./", never both), rooted with "/".
OneMarkerRemoved(p) ==
    IF StartsWith(p, ParentMarker) THEN DropFirst(p, 3)
    ELSE IF StartsWith(p, CurrentMarker) THEN DropFirst(p, 2)
    ELSE p

C8_OutboundResult ==
    (given.kind = "wiki" /\ Len(ops) >= 1 /\ ops[1] = "out") =>
        texts[2] = given.pre
                     \o MdRef(<<>>, LET r == OneMarkerRemoved(given.path)
                                    IN  IF StartsWith(r, RootSep) THEN r ELSE RootSep \o r)
                     \o given.post

\* C9: `![alt](p)` becomes `![[../p']]` (p' = p without its leading "/",
\* alt text dropped) when p starts with "/", and is left as it was otherwise.
C9_InboundResult ==
    (given.kind = "md" /\ Len(ops) >= 1 /\ ops[1] = "in") =>
        texts[2] = IF StartsWith(given.path, RootSep)
                   THEN given.pre \o WikiRef(ParentMarker \o DropFirst(given.path, 1)) \o given.post
                   ELSE texts[1]

C9_Witness ==
    /\ given.kind = "md" /\ ops = <<"in">>
    /\ given.alt # <<>> /\ given.path = <<"/", "post_imgs", "/", "Mapper.png">>
    /\ texts[2] = given.pre \o WikiRef(<<".", ".", "/", "post_imgs", "/", "Mapper.png">>) \o given.post

(***************************************************************************)
(* Front-matter parser: ArticleManager.parseFrontmatter                    *)
(*                                                                         *)
(* An article is a sequence of lines (content.split on line feeds), a line *)
(* a sequence of atoms.  Words (\w+) are single atoms.  A parsed value is  *)
(* a record with a tag t and one field per JavaScript type.  The keys      *)
(* generated at the top level never carry the name of a section.           *)
(***************************************************************************)
Words == {"taxonomies", "extra", "tags", "title", "categories", "draft", "date",
          "true", "false", "a", "b", "c", "t"}

Delimiter == <<"+++">>

IsSpace(a) == a \in {" ", "\t"}

RECURSIVE TrimLeft(_)
TrimLeft(s) == IF s # <<>> /\ IsSpace(Head(s)) THEN TrimLeft(Tail(s)) ELSE s

RECURSIVE TrimRight(_)
TrimRight(s) ==
    IF s # <<>> /\ IsSpace(s[Len(s)]) THEN TrimRight(SubSeq(s, 1, Len(s) - 1)) ELSE s

Trim(s) == TrimRight(TrimLeft(s))

\* content.match(/^\+\+\+\n([\s\S]*?)\n\+\+\+/): the first line is the
\* delimiter and a later line, not the second, begins with it; the (lazy)
\* body stops before the first such line.  0 when there is no match.
ClosingLine(lines) ==
    IF Len(lines) < 3 \/ lines[1] # Delimiter THEN 0
    ELSE LET C == {k \in 3..Len(lines) : StartsWith(lines[k], Delimiter)}
         IN  IF C = {} THEN 0 ELSE SetMin(C)

\* trimmed.match(/\[(\w+)\]/): the first bracketed word anywhere, or "".
SectionName(trimmed) ==
    LET C == {i \in 1..(Len(trimmed) - 2) :
                 trimmed[i] = "[" /\ trimmed[i + 1] \in Words /\ trimmed[i + 2] = "]"}
    IN  IF C = {} THEN "" ELSE trimmed[SetMin(C) + 1]

\* the position after the blanks that begin at i
RECURSIVE SkipSpaces(_, _)
SkipSpaces(s, i) == IF i <= Len(s) /\ IsSpace(s[i]) THEN SkipSpaces(s, i + 1) ELSE i

\* trimmed.match(/^(\w+)\s*=\s*(.+)$/): the position of the value, or 0.
KvValueStart(trimmed) ==
    IF trimmed = <<>> \/ trimmed[1] \notin Words THEN 0
    ELSE LET e == SkipSpaces(trimmed, 2)
         IN  IF e > Len(trimmed) \/ trimmed[e] # "=" THEN 0
             ELSE LET v == SkipSpaces(trimmed, e + 1)
                  IN  IF v > Len(trimmed) THEN 0 ELSE v

BoolValue(b)   == [t |-> "bool", b |-> b, s |-> <<>>, a |-> <<>>]
StringValue(s) == [t |-> "str", b |-> FALSE, s |-> s, a |-> <<>>]
ArrayValue(a)  == [t |-> "arr", b |-> FALSE, s |-> <<>>, a |-> a]

\* arrayContent.split(',')
SplitCommas(s) == SplitOn(s, ",")

\* item.trim().replace(/^"(.*)"$/, '$1')
Unquote(item) ==
    LET u == Trim(item)
    IN  IF Len(u) >= 2 /\ u[1] = "\"" /\ u[Len(u)] = "\"" THEN SubSeq(u, 2, Len(u) - 1) ELSE u

RECURSIVE NonEmptyItems(_)
NonEmptyItems(items) ==
    IF items = <<>> THEN <<>>
    ELSE IF Unquote(Head(items)) = <<>> THEN NonEmptyItems(Tail(items))
    ELSE <<Unquote(Head(items))>> \o NonEmptyItems(Tail(items))

\* lines 136-150: the typing rules, in the order of the source
ParseValue(v) ==
    IF v = <<"true">> THEN BoolValue(TRUE)
    ELSE IF v = <<"false">> THEN BoolValue(FALSE)
    ELSE IF v[1] = "\"" /\ v[Len(v)] = "\"" THEN StringValue(SubSeq(v, 2, Len(v) - 1))
    ELSE IF v[1] = "[" /\ v[Len(v)] = "]"
         THEN ArrayValue(NonEmptyItems(SplitCommas(SubSeq(v, 2, Len(v) - 1))))
    ELSE StringValue(v)

\* JavaScript truthiness of a parsed value: an array, even empty, is true
Truthy(val) ==
    CASE val.t = "bool" -> val.b
      [] val.t = "str"  -> val.s # <<>>
      [] OTHER          -> TRUE

EmptyTable == [x \in {} |-> BoolValue(FALSE)]

EmptyResult == [top |-> EmptyTable, tables |-> [x \in {} |-> EmptyTable]]

\* one iteration of the loop over the lines, st = [result, currentSection]
ParseLine(st, line) ==
    LET trimmed == Trim(line)
    IN  IF trimmed = <<>> \/ trimmed[1] = "#" THEN st
        ELSE IF trimmed[1] = "["
        THEN LET sec == SectionName(trimmed)
             IN  IF sec = "" THEN st
                 ELSE [result |-> IF sec \in DOMAIN st.result.tables THEN st.result
                                  ELSE [st.result EXCEPT !.tables = Put(@, sec, EmptyTable)],
                       currentSection |-> sec]
        ELSE LET v == KvValueStart(trimmed)
             IN  IF v = 0 THEN st
                 ELSE LET key == trimmed[1]
                          value == ParseValue(SubSeq(trimmed, v, Len(trimmed)))
                      IN  IF st.currentSection # ""
                          THEN [st EXCEPT !.result.tables[st.currentSection] = Put(@, key, value)]
                          ELSE [st EXCEPT !.result.top = Put(@, key, value)]

RECURSIVE ParseLines(_, _)
ParseLines(st, lines) ==
    IF lines = <<>> THEN st ELSE ParseLines(ParseLine(st, Head(lines)), Tail(lines))


\* lines 160-163: if (result.taxonomies && result.taxonomies.tags)
PromoteTags(result) ==
    IF /\ "taxonomies" \in DOMAIN result.tables
       /\ "tags" \in DOMAIN result.tables["taxonomies"]
       /\ Truthy(result.tables["taxonomies"]["tags"])
    THEN [result EXCEPT !.top = Put(@, "tags", result.tables["taxonomies"]["tags"])]
    ELSE result

NoFrontmatter == [found |-> FALSE, result |-> EmptyResult]

parseFrontmatter(lines) ==
    IF ClosingLine(lines) = 0 THEN NoFrontmatter
    ELSE [found |-> TRUE,
          result |-> PromoteTags(
              ParseLines([result |-> EmptyResult, currentSection |-> ""],
                         SubSeq(lines, 2, ClosingLine(lines) - 1)).result)]

(***************************************************************************)
(* The parser applied to bounded articles.                                 *)
(***************************************************************************)
MaxMetaLines == 3

Quoted(w) == <<"\"", w, "\"">>

MetaLines ==
    { <<"[", "taxonomies", "]">>,
      <<"[", "extra", "]">>,
      <<"tags", " ", "=", " ", "[">> \o Quoted("a") \o <<",", " ">> \o Quoted("b") \o <<"]">>,
      <<"tags", " ", "=", " ", "[">> \o Quoted("b") \o <<",">> \o Quoted("a") \o <<",", "]">>,
      <<"tags", " ", "=", " ", "[", "]">>,
      <<"tags", " ", "=", " ", "false">>,
      <<"tags", "=", "\"", "\"">>,
      <<"categories", " ", "=", " ", "[">> \o Quoted("c") \o <<"]">>,
      <<"title", " ", "=", " ">> \o Quoted("t"),
      <<"draft", " ", "=", " ", "true">>,
      <<"tags", " ", "=">>,
      <<"#", " ", "tags">>,
      <<>> }

Articles ==
    {<<Delimiter>> \o m \o <<Delimiter>> \o b :
        m \in TokenSeqs(MetaLines, MaxMetaLines) \ {<<>>}, b \in {<<>>, <<<<"t">>>>}}
      \cup {<<Delimiter, Delimiter>>, <<<<"t">>>>, <<Delimiter, <<"title", "=", "t">>>>}

InitFM ==
    /\ article \in Articles
    /\ frontmatter = NoFrontmatter
    /\ parsed = FALSE

ParseArticle ==
    /\ ~parsed
    /\ frontmatter' = parseFrontmatter(article)
    /\ parsed' = TRUE
    /\ UNCHANGED <<article, linkVars, engineVars>>

NextFM == ParseArticle

(***************************************************************************)
(* Sync engine: SyncManager                                                *)
(*                                                                         *)
(* A path is a sequence of atoms: "/" or a piece of a segment; a file name *)
(* ends with its extension atom (".md", ".png").  The vault is a function  *)
(* from the paths of its files to their contents, the disk a function from *)
(* [dir, name] (what path.join gives) to contents.                         *)
(***************************************************************************)
LogCap == 100

VaultBasePath == <<"/", "Users", "/", "me", "/", "vault">>

DefaultPostsPath  == <<"/", "posts">>
DefaultImagesPath == <<"/", "images", "/", "posts", "/">>
DefaultZolaImages == <<"/", "static", "/", "images", "/">>
ZolaContentPath   == <<"/", "site", "/", "content">>

LowerAtom(a) ==
    CASE a = "Index" -> "index"
      [] a = ".MD"   -> ".md"
      [] a = ".PNG"  -> ".png"
      [] OTHER       -> a

\* name.toLowerCase()
Lower(name) == [x \in 1..Len(name) |-> LowerAtom(name[x])]

\* TFile.name, path.basename: what follows the last separator
FileName(path) ==
    LET C == {x \in 1..Len(path) : path[x] = "/"}
    IN  IF C = {} THEN path ELSE DropFirst(path, CHOOSE x \in C : \A y \in C : y <= x)

\* TFile.basename: the name without its extension
BaseName(path) == SubSeq(FileName(path), 1, Len(FileName(path)) - 1)

IsMarkdown(path) == path[Len(path)] = ".md"

\* path.join(dir, name): a trailing separator of dir is dropped
DirOf(dir) == IF Len(dir) > 1 /\ dir[Len(dir)] = "/" THEN SubSeq(dir, 1, Len(dir) - 1) ELSE dir

PathJoin(dir, name) == [dir |-> DirOf(dir), name |-> name]

\* part.includes(' ') || part.includes('Brain') || part.includes('Vault') ||
\* part.includes('Obsidian')
VaultNameAtoms == {" ", "Brain", "Vault", "Obsidian"}

LooksLikeVaultRoot(part) == \E x \in 1..Len(part) : part[x] \in VaultNameAtoms

\* lines 31-58 and 342-369: the configured directory made vault-relative
VaultRelative(configured) ==
    IF StartsWith(configured, RootSep)
    THEN LET pathParts == SplitOn(configured, "/")
             C == {i \in 1..(Len(pathParts) - 1) : LooksLikeVaultRoot(pathParts[i])}
         IN  IF C # {}
             THEN JoinWith(SubSeq(pathParts, SetMin(C) + 1, Len(pathParts)), "/")
             ELSE DropFirst(configured, 1)
    ELSE configured

\* the files of the vault, in the order vault.getFiles() lists them
VaultOrder ==
    << <<"posts", "/", "post", ".md">>,
       <<"posts", "/", "sub", "/", "post", ".md">>,
       <<"posts", "/", "_index", ".md">>,
       <<"posts", "/", "Index", ".md">>,
       <<"posts", "/", "other", ".md">>,
       <<"posts", "-old", "/", "kept", ".md">>,
       <<"images", "/", "posts", "/", "pic", ".png">>,
       <<"images", "/", "posts", "-old", "/", "old", ".png">> >>

\* the entries of the site directories, in the order readdirSync lists them
SiteOrder == << <<".draft", ".md">>, <<"Index", ".md">>, <<"_index", ".md">>,
               <<"index", ".md", ".md">>, <<"kept", ".md">>, <<"notes", ".txt">>,
               <<"other", ".md">>,
               <<"post", ".md">>, <<"pic", ".png">> >>

PushSystemFiles == {<<"_index", ".md">>, <<"index", ".md">>}


\* lines 60-74: getMarkdownFiles().filter(...)
PushCandidates(vlt, cfg) ==
    LET basePath == VaultRelative(cfg.obsidianPostsPath)
        Keep(f) == /\ f \in DOMAIN vlt /\ IsMarkdown(f)
                   /\ StartsWith(f, basePath)
                   /\ FileName(f) \notin PushSystemFiles
    IN  SelectSeq(VaultOrder, Keep)

PullSystemFiles == {<<"_index", ".md">>, <<"index", ".md">>, <<"_index">>, <<"index">>}

HiddenStems == {".obsidian", ".DS_Store", ".draft"}

\* lines 293-327: getZolaFiles (an entry that is a file of the disk is a
\* regular file)
getZolaFiles(dsk, dirs, zolaPath) ==
    LET Keep(entry) ==
            /\ PathJoin(zolaPath, entry) \in DOMAIN dsk
            /\ entry[1] \notin HiddenStems
            /\ ~\E sf \in PullSystemFiles :
                   Lower(entry) = sf \/ Lower(entry) = sf \o <<".md">>
            /\ entry[Len(entry)] = ".md"
    IN  IF DirOf(zolaPath) \notin dirs THEN <<>>
        ELSE [x \in 1..Len(SelectSeq(SiteOrder, Keep)) |->
                 PathJoin(zolaPath, SelectSeq(SiteOrder, Keep)[x])]

\* lines 233-253: the vault path a pulled file is written to
PullTarget(cfg, fileName) ==
    LET fullTargetPath == DirOf(cfg.obsidianPostsPath) \o <<"/">> \o fileName
    IN  IF StartsWith(fullTargetPath, VaultBasePath)
        THEN DropFirst(fullTargetPath, Len(VaultBasePath) + 1)
        ELSE IF StartsWith(cfg.obsidianPostsPath, RootSep)
        THEN DropFirst(cfg.obsidianPostsPath, 1) \o <<"/">> \o fileName
        ELSE cfg.obsidianPostsPath \o <<"/">> \o fileName

ImageExtensions == {".png", ".jpg", ".jpeg", ".gif", ".webp", ".svg", ".ico"}

\* lines 371-377: the image candidates
ImageCandidates(vlt, cfg) ==
    LET obsidianImageDir == VaultRelative(cfg.obsidianImagesPath)
        Keep(f) == /\ f \in DOMAIN vlt
                   /\ StartsWith(f, obsidianImageDir)
                   /\ LowerAtom(f[Len(f)]) \in ImageExtensions
    IN  SelectSeq(VaultOrder, Keep)

\* fs.writeFileSync: throws when the directory is missing or the file name
\* is one the environment refuses to write
CanWrite(dirs, deny, target) == target.dir \in dirs /\ target.name \notin deny

\* a faulty variant of the image loop: an existing image whose content differs is
\* overwritten
RECURSIVE CopyImagesOverwriting(_, _, _, _, _)
CopyImagesOverwriting(dsk, vlt, imgs, zolaImagesPath, deny) ==
    IF imgs = <<>> THEN dsk
    ELSE LET targetPath == PathJoin(zolaImagesPath, FileName(Head(imgs)))
             next == IF (targetPath \in DOMAIN dsk /\ dsk[targetPath] = vlt[Head(imgs)])
                         \/ targetPath.name \in deny
                     THEN dsk
                     ELSE Put(dsk, targetPath, vlt[Head(imgs)])
         IN  CopyImagesOverwriting(next, vlt, Tail(imgs), zolaImagesPath, deny)

\* lines 391-410: the loop over the image candidates (the directory exists)
RECURSIVE CopyImages(_, _, _, _, _)
CopyImages(dsk, vlt, imgs, zolaImagesPath, deny) ==
    IF imgs = <<>> THEN dsk
    ELSE LET targetPath == PathJoin(zolaImagesPath, FileName(Head(imgs)))
             next == IF targetPath \in DOMAIN dsk \/ targetPath.name \in deny
                     THEN dsk
                     ELSE Put(dsk, targetPath, vlt[Head(imgs)])
         IN  CopyImages(next, vlt, Tail(imgs), zolaImagesPath, deny)

\* the logs key of a persisted document: absent, or a list of entries
NoLogsKey == [present |-> FALSE, logs |-> <<>>]

\* saveLogs, lines 88-97: saveData({...settings, logs})
SavedLogs(lg) == [present |-> TRUE, logs |-> lg]

\* the loadLogs of the constructor has assigned this.logs
LoadDone == [stage |-> "done", data |-> NoLogsKey]

\* a faulty variant of addLog: a full log refuses the new entry
AddedLogDroppingNewest(lg, entry) ==
    IF Len(lg) >= LogCap THEN lg ELSE <<entry>> \o lg

\* addLog, lines 25-36 of the log manager: newest first, at most LogCap
AddedLog(lg, entry) ==
    IF Len(<<entry>> \o lg) > LogCap THEN SubSeq(<<entry>> \o lg, 1, LogCap)
    ELSE <<entry>> \o lg

(***************************************************************************)
(* The state of the plugin, of the two trees and of the batch in progress. *)
(***************************************************************************)
MaxRuns == 2

DocA == <<"intro", " ">> \o WikiRef(<<".", ".", "/", "post_imgs", "/", "pic.png">>)
DocB == WikiRef(<<".", "/", "b.png">>) \o <<" ", "[", "[", "note", "]", "]">>
SiteNative == MdRef(<<"alt">>, <<"/", "s.png">>) \o <<"text">>

Image1 == <<"png-bytes-1">>
Image2 == <<"png-bytes-2">>

SettingsChoices ==
    [obsidianPostsPath : {DefaultPostsPath},
     zolaProjectPath : {<<>>, ZolaContentPath},
     syncStrategy : {"one-way", "two-way"},
     obsidianImagesPath : {DefaultImagesPath},
     zolaImagesPath : {DefaultZolaImages}]

\* the functions whose domain is a subset of the keys of choices and whose
\* value at a key is one of the values choices allows there
RECURSIVE PartialMaps(_)
PartialMaps(choices) ==
    IF DOMAIN choices = {} THEN {[x \in {} |-> <<>>]}
    ELSE LET k == CHOOSE x \in DOMAIN choices : TRUE
             rest == PartialMaps([x \in (DOMAIN choices) \ {k} |-> choices[x]])
         IN  rest \cup {Put(f, k, v) : f \in rest, v \in choices[k]}

VaultChoices ==
    PartialMaps(
        (<<"posts", "/", "post", ".md">> :> {DocA, DocB})
     @@ (<<"posts", "/", "sub", "/", "post", ".md">> :> {DocB})
     @@ (<<"posts", "/", "_index", ".md">> :> {DocA})
     @@ (<<"posts", "/", "Index", ".md">> :> {DocA})
     @@ (<<"images", "/", "posts", "/", "pic", ".png">> :> {Image1}))

DiskChoices ==
    PartialMaps(
        (PathJoin(ZolaContentPath, <<"post", ".md">>) :> {convertImageLinks(DocA), SiteNative})
     @@ (PathJoin(ZolaContentPath, <<"other", ".md">>) :> {SiteNative})
     @@ (PathJoin(DefaultZolaImages, <<"pic", ".png">>) :> {Image1, Image2}))

RefusedChoices == SUBSET {<<"post", ".md">>, <<"other", ".md">>, <<"pic", ".png">>}

NoNotice == [kind |-> "none", success |-> 0, failed |-> 0]

\* no batch has run, nothing is logged or persisted, the load is over
EngineIdle ==
    /\ pc = "Idle"
    /\ direction = "none"
    /\ files = <<>>
    /\ idx = 1
    /\ syncCount = 0
    /\ errorCount = 0
    /\ outcome = <<>>
    /\ writes = <<>>
    /\ before = [vault |-> vault, disk |-> disk]
    /\ logs = <<>>
    /\ notice = NoNotice
    /\ runs = 0
    /\ articles = <<>>
    /\ clock = 0
    /\ added = <<>>
    /\ vaultWrites = <<>>
    /\ inflight = <<>>
    /\ saved = NoLogsKey
    /\ settingsLogs = NoLogsKey
    /\ loading = LoadDone

InitEngine ==
    /\ settings \in SettingsChoices
    /\ vault \in VaultChoices
    /\ disk \in DiskChoices
    /\ diskDirs \in SUBSET {DirOf(ZolaContentPath), DirOf(DefaultZolaImages)}
    /\ \A t \in DOMAIN disk : t.dir \in diskDirs
    /\ refused \in RefusedChoices
    /\ EngineIdle

\* the batch begins: the counters of lines 76-77 / 135-136 and the record
\* of what the batch does
BeginBatch(dir, candidates) ==
    /\ direction' = dir
    /\ files' = candidates
    /\ idx' = 1
    /\ syncCount' = 0
    /\ errorCount' = 0
    /\ outcome' = <<>>
    /\ writes' = <<>>
    /\ vaultWrites' = <<>>
    /\ before' = [vault |-> vault, disk |-> disk]
    /\ pc' = IF candidates = <<>> THEN "Images" ELSE "PerFileSync"
    /\ notice' = [kind |-> dir \o "-started", success |-> 0, failed |-> 0]

\* a faulty variant of pushToZola: the site root is not validated
StartPushUnvalidated ==
    /\ pc = "Idle"
    /\ runs < MaxRuns
    /\ runs' = runs + 1
    /\ BeginBatch("push", PushCandidates(vault, settings))
    /\ UNCHANGED <<linkVars, fmVars, hostVars, saved, settings, vault, disk, diskDirs, refused, logs,
                   articles, clock, added>>

\* pushToZola, lines 18-74: validation and enumeration
StartPush ==
    /\ pc = "Idle"
    /\ runs < MaxRuns
    /\ runs' = runs + 1
    /\ IF settings.zolaProjectPath = <<>>
       THEN /\ notice' = [kind |-> "configure-path", success |-> 0, failed |-> 0]
            /\ UNCHANGED <<pc, direction, files, idx, syncCount, errorCount,
                           outcome, writes, vaultWrites, before>>
       ELSE BeginBatch("push", PushCandidates(vault, settings))
    /\ UNCHANGED <<linkVars, fmVars, hostVars, saved, settings, vault, disk, diskDirs, refused, logs,
                   articles, clock, added>>

\* a faulty variant of pullFromZola: the sync policy is not looked at
StartPullUngated ==
    /\ pc = "Idle"
    /\ runs < MaxRuns
    /\ runs' = runs + 1
    /\ IF settings.zolaProjectPath = <<>>
       THEN /\ notice' = [kind |-> "configure-path", success |-> 0, failed |-> 0]
            /\ UNCHANGED <<pc, direction, files, idx, syncCount, errorCount,
                           outcome, writes, vaultWrites, before>>
       ELSE IF DirOf(settings.zolaProjectPath) \notin diskDirs
       THEN /\ notice' = [kind |-> "path-missing", success |-> 0, failed |-> 0]
            /\ UNCHANGED <<pc, direction, files, idx, syncCount, errorCount,
                           outcome, writes, vaultWrites, before>>
       ELSE BeginBatch("pull", getZolaFiles(disk, diskDirs, settings.zolaProjectPath))
    /\ UNCHANGED <<linkVars, fmVars, hostVars, saved, settings, vault, disk, diskDirs, refused, logs,
                   articles, clock, added>>

\* pullFromZola, lines 109-136: validation and enumeration
StartPull ==
    /\ pc = "Idle"
    /\ runs < MaxRuns
    /\ runs' = runs + 1
    /\ IF settings.zolaProjectPath = <<>>
       THEN /\ notice' = [kind |-> "configure-path", success |-> 0, failed |-> 0]
            /\ UNCHANGED <<pc, direction, files, idx, syncCount, errorCount,
                           outcome, writes, vaultWrites, before>>
       ELSE IF settings.syncStrategy # "two-way"
       THEN /\ notice' = [kind |-> "one-way-cannot-pull", success |-> 0, failed |-> 0]
            /\ UNCHANGED <<pc, direction, files, idx, syncCount, errorCount,
                           outcome, writes, vaultWrites, before>>
       ELSE IF DirOf(settings.zolaProjectPath) \notin diskDirs
       THEN /\ notice' = [kind |-> "path-missing", success |-> 0, failed |-> 0]
            /\ UNCHANGED <<pc, direction, files, idx, syncCount, errorCount,
                           outcome, writes, vaultWrites, before>>
       ELSE BeginBatch("pull", getZolaFiles(disk, diskDirs, settings.zolaProjectPath))
    /\ UNCHANGED <<linkVars, fmVars, hostVars, saved, settings, vault, disk, diskDirs, refused, logs,
                   articles, clock, added>>

AfterFile == IF idx = Len(files) THEN "Images" ELSE "PerFileSync"

\* a faulty variant of the loop of push: the first failure ends the loop
PushFileAborting ==
    /\ pc = "PerFileSync" /\ direction = "push"
    /\ LET file == files[idx]
           content == convertImageLinks(vault[file])
           targetPath == PathJoin(settings.zolaProjectPath, FileName(file))
       IN  IF targetPath \in DOMAIN disk /\ disk[targetPath] = content
           THEN /\ syncCount' = syncCount + 1
                /\ outcome' = Append(outcome, "ok")
                /\ pc' = AfterFile
                /\ UNCHANGED <<disk, writes, errorCount>>
           ELSE IF CanWrite(diskDirs, refused, targetPath)
           THEN /\ disk' = Put(disk, targetPath, content)
                /\ writes' = Append(writes, targetPath)
                /\ syncCount' = syncCount + 1
                /\ outcome' = Append(outcome, "ok")
                /\ pc' = AfterFile
                /\ UNCHANGED errorCount
           ELSE /\ errorCount' = errorCount + 1
                /\ outcome' = Append(outcome, "failed")
                /\ pc' = "Images"
                /\ UNCHANGED <<disk, writes, syncCount>>
    /\ idx' = idx + 1
    /\ UNCHANGED <<linkVars, fmVars, hostVars, saved, settings, vault, diskDirs, refused, direction, files,
                   before, logs, notice, runs, articles, clock, added, vaultWrites>>

\* a faulty variant of syncFileToZola: the existing file is not compared
PushFileAlwaysWriting ==
    /\ pc = "PerFileSync" /\ direction = "push"
    /\ LET file == files[idx]
           content == convertImageLinks(vault[file])
           targetPath == PathJoin(settings.zolaProjectPath, FileName(file))
       IN  IF CanWrite(diskDirs, refused, targetPath)
           THEN /\ disk' = Put(disk, targetPath, content)
                /\ writes' = Append(writes, targetPath)
                /\ syncCount' = syncCount + 1
                /\ outcome' = Append(outcome, "ok")
                /\ UNCHANGED errorCount
           ELSE /\ errorCount' = errorCount + 1
                /\ outcome' = Append(outcome, "failed")
                /\ UNCHANGED <<disk, writes, syncCount>>
    /\ idx' = idx + 1
    /\ pc' = AfterFile
    /\ UNCHANGED <<linkVars, fmVars, hostVars, saved, settings, vault, diskDirs, refused, direction, files,
                   before, logs, notice, runs, articles, clock, added, vaultWrites>>

\* one iteration of lines 79-87 with syncFileToZola, lines 168-193
PushFile ==
    /\ pc = "PerFileSync" /\ direction = "push"
    /\ LET file == files[idx]
           content == convertImageLinks(vault[file])
           targetPath == PathJoin(settings.zolaProjectPath, FileName(file))
       IN  IF targetPath \in DOMAIN disk /\ disk[targetPath] = content
           THEN /\ syncCount' = syncCount + 1
                /\ outcome' = Append(outcome, "ok")
                /\ UNCHANGED <<disk, writes, errorCount>>
           ELSE IF CanWrite(diskDirs, refused, targetPath)
           THEN /\ disk' = Put(disk, targetPath, content)
                /\ writes' = Append(writes, targetPath)
                /\ syncCount' = syncCount + 1
                /\ outcome' = Append(outcome, "ok")
                /\ UNCHANGED errorCount
           ELSE /\ errorCount' = errorCount + 1
                /\ outcome' = Append(outcome, "failed")
                /\ UNCHANGED <<disk, writes, syncCount>>
    /\ idx' = idx + 1
    /\ pc' = AfterFile
    /\ UNCHANGED <<linkVars, fmVars, hostVars, saved, settings, vault, diskDirs, refused, direction, files,
                   before, logs, notice, runs, articles, clock, added, vaultWrites>>

\* a faulty variant of the loop of pull: the site file is moved, not copied
PullFileMoving ==
    /\ pc = "PerFileSync" /\ direction = "pull"
    /\ LET zolaFile == files[idx]
           content == convertImageLinksToObsidian(disk[zolaFile])
           targetPath == PullTarget(settings, zolaFile.name)
       IN  IF FileName(targetPath) \notin refused
           THEN /\ vault' = Put(vault, targetPath, content)
                /\ disk' = [t \in (DOMAIN disk) \ {zolaFile} |-> disk[t]]
                /\ vaultWrites' = Append(vaultWrites, targetPath)
                /\ syncCount' = syncCount + 1
                /\ outcome' = Append(outcome, "ok")
                /\ UNCHANGED errorCount
           ELSE /\ errorCount' = errorCount + 1
                /\ outcome' = Append(outcome, "failed")
                /\ UNCHANGED <<vault, disk, vaultWrites, syncCount>>
    /\ idx' = idx + 1
    /\ pc' = AfterFile
    /\ UNCHANGED <<linkVars, fmVars, hostVars, saved, settings, diskDirs, refused, direction, files,
                   writes, before, logs, notice, runs, articles, clock, added>>

\* one iteration of lines 138-146 with syncFileFromZola, lines 222-265:
\* vault.modify or vault.create, which throw when the write is refused
PullFile ==
    /\ pc = "PerFileSync" /\ direction = "pull"
    /\ LET zolaFile == files[idx]
           content == convertImageLinksToObsidian(disk[zolaFile])
           targetPath == PullTarget(settings, zolaFile.name)
       IN  IF FileName(targetPath) \notin refused
           THEN /\ vault' = Put(vault, targetPath, content)
                /\ vaultWrites' = Append(vaultWrites, targetPath)
                /\ syncCount' = syncCount + 1
                /\ outcome' = Append(outcome, "ok")
                /\ UNCHANGED errorCount
           ELSE /\ errorCount' = errorCount + 1
                /\ outcome' = Append(outcome, "failed")
                /\ UNCHANGED <<vault, vaultWrites, syncCount>>
    /\ idx' = idx + 1
    /\ pc' = AfterFile
    /\ UNCHANGED <<linkVars, fmVars, hostVars, saved, settings, disk, diskDirs, refused, direction, files,
                   writes, before, logs, notice, runs, articles, clock, added>>

\* a faulty variant of syncImages: the failure of an image is not caught, the
\* batch ends in the catch of its caller without summary
SyncImagesPropagating ==
    /\ pc = "Images"
    /\ LET imageFiles == ImageCandidates(vault, settings)
           zolaImagesPath == settings.zolaImagesPath
           Fails(f) == /\ PathJoin(zolaImagesPath, FileName(f)) \notin DOMAIN disk
                       /\ FileName(f) \in refused
       IN  IF zolaImagesPath = <<>> \/ settings.obsidianImagesPath = <<>>
              \/ imageFiles = <<>>
           THEN /\ pc' = "Summarizing"
                /\ UNCHANGED <<disk, diskDirs, writes, notice>>
           ELSE IF \E x \in 1..Len(imageFiles) : Fails(imageFiles[x])
           THEN /\ pc' = "Idle"
                /\ notice' = [kind |-> direction \o "-failed", success |-> 0, failed |-> 0]
                /\ diskDirs' = diskDirs \cup {DirOf(zolaImagesPath)}
                /\ UNCHANGED <<disk, writes>>
           ELSE /\ diskDirs' = diskDirs \cup {DirOf(zolaImagesPath)}
                /\ disk' = CopyImages(disk, vault, imageFiles, zolaImagesPath, refused)
                /\ writes' = writes \o
                     SelectSeq([x \in 1..Len(imageFiles) |->
                                   PathJoin(zolaImagesPath, FileName(imageFiles[x]))],
                               LAMBDA t : t \notin DOMAIN disk /\ t \in DOMAIN disk')
                /\ pc' = "Summarizing"
                /\ UNCHANGED notice
    /\ UNCHANGED <<linkVars, fmVars, hostVars, saved, settings, vault, refused, direction, files, idx, syncCount,
                   errorCount, outcome, before, logs, runs,
                   articles, clock, added, vaultWrites>>

\* syncImages, lines 332-419, called by push (line 90) and by pull (line 149)
SyncImages ==
    /\ pc = "Images"
    /\ LET imageFiles == ImageCandidates(vault, settings)
           zolaImagesPath == settings.zolaImagesPath
       IN  IF zolaImagesPath = <<>> \/ settings.obsidianImagesPath = <<>>
              \/ imageFiles = <<>>
           THEN UNCHANGED <<disk, diskDirs, writes>>
           ELSE /\ diskDirs' = diskDirs \cup {DirOf(zolaImagesPath)}
                /\ disk' = CopyImages(disk, vault, imageFiles, zolaImagesPath, refused)
                /\ writes' = writes \o
                     SelectSeq([x \in 1..Len(imageFiles) |->
                                   PathJoin(zolaImagesPath, FileName(imageFiles[x]))],
                               LAMBDA t : t \notin DOMAIN disk /\ t \in DOMAIN disk')
    /\ pc' = "Summarizing"
    /\ UNCHANGED <<linkVars, fmVars, hostVars, saved, settings, vault, refused, direction, files, idx, syncCount,
                   errorCount, outcome, before, logs, notice, runs,
                   articles, clock, added, vaultWrites>>

\* a faulty variant of the end of a batch: a batch that synced nothing is
\* not logged
SummarizeUnlessEmpty ==
    /\ pc = "Summarizing"
    /\ notice' = [kind |-> direction \o "-complete", success |-> syncCount,
                  failed |-> errorCount]
    /\ LET entry == [timestamp |-> clock,
                     action |-> "sync-" \o direction,
                     summary |-> syncCount,
                     details |-> [x \in 1..Len(files) |->
                                     IF direction = "push" THEN BaseName(files[x])
                                     ELSE files[x].name]]
       IN  IF syncCount = 0 THEN UNCHANGED <<logs, added, saved>>
           ELSE /\ logs' = AddedLog(logs, entry)
                /\ added' = <<entry>> \o added
                /\ saved' = SavedLogs(logs')
    /\ clock' = clock + 1
    /\ pc' = "Idle"
    /\ UNCHANGED <<linkVars, fmVars, hostVars, settings, vault, disk, diskDirs, refused, direction, files, idx,
                   syncCount, errorCount, outcome, writes, before, runs, articles,
                   vaultWrites>>

\* lines 92-99 and 151-158: the notice and the log entry of the batch
Summarize ==
    /\ pc = "Summarizing"
    /\ notice' = [kind |-> direction \o "-complete", success |-> syncCount,
                  failed |-> errorCount]
    /\ LET entry == [timestamp |-> clock,
                     action |-> "sync-" \o direction,
                     summary |-> syncCount,
                     details |-> [x \in 1..Len(files) |->
                                     IF direction = "push" THEN BaseName(files[x])
                                     ELSE files[x].name]]
       IN  /\ logs' = AddedLog(logs, entry)
           /\ added' = <<entry>> \o added
    /\ saved' = SavedLogs(logs')
    /\ clock' = clock + 1
    /\ pc' = "Idle"
    /\ UNCHANGED <<linkVars, fmVars, hostVars, settings, vault, disk, diskDirs, refused, direction, files, idx,
                   syncCount, errorCount, outcome, writes, before, runs, articles,
                   vaultWrites>>

(***************************************************************************)
(* Specifications.  Each one runs one part of the program and keeps the    *)
(* variables of the other parts at rest.                                   *)
(***************************************************************************)
LinkAtRest ==
    /\ given = [kind |-> "free", alt |-> <<>>, path |-> <<>>, pre |-> <<>>, post |-> <<>>]
    /\ texts = <<<<>>>>
    /\ ops = <<>>

FMAtRest ==
    /\ article = <<<<"t">>>>
    /\ frontmatter = NoFrontmatter
    /\ parsed = FALSE

EngineAtRest ==
    /\ settings = [obsidianPostsPath |-> DefaultPostsPath, zolaProjectPath |-> <<>>,
                   syncStrategy |-> "two-way", obsidianImagesPath |-> DefaultImagesPath,
                   zolaImagesPath |-> DefaultZolaImages]
    /\ vault = [x \in {} |-> <<>>]
    /\ disk = [x \in {} |-> <<>>]
    /\ diskDirs = {}
    /\ refused = {}
    /\ pc = "Idle"
    /\ direction = "none"
    /\ files = <<>>
    /\ idx = 1
    /\ syncCount = 0
    /\ errorCount = 0
    /\ outcome = <<>>
    /\ writes = <<>>
    /\ before = [vault |-> vault, disk |-> disk]
    /\ logs = <<>>
    /\ notice = NoNotice
    /\ runs = 0
    /\ articles = <<>>
    /\ clock = 0
    /\ added = <<>>
    /\ vaultWrites = <<>>
    /\ inflight = <<>>
    /\ saved = NoLogsKey
    /\ settingsLogs = NoLogsKey
    /\ loading = LoadDone

Init == InitEngine /\ LinkAtRest /\ FMAtRest

Next == StartPush \/ StartPull \/ PushFile \/ PullFile \/ SyncImages \/ Summarize

Spec == Init /\ [][Next]_vars

(***************************************************************************)
(* The article manager: getArticles over a vault whose articles may carry  *)
(* a metadata block.  A text is cut into lines at its line feeds.          *)
(***************************************************************************)
\* getArticles, lines 26-45: the configured directory made vault-relative
ArticlesBasePath(configured) ==
    IF StartsWith(configured, VaultBasePath)
    THEN DropFirst(configured, Len(VaultBasePath) + 1)
    ELSE IF StartsWith(configured, RootSep) THEN DropFirst(configured, 1)
    ELSE configured

\* vault.getAbstractFileByPath(basePath) instanceof TFolder: a folder of the
\* vault is a directory that holds a file
IsFolder(vlt, basePath) ==
    \E f \in DOMAIN vlt : StartsWith(f, basePath \o <<"/">>)

\* frontmatter.key, undefined being the false bool
TopField(fm, key) ==
    IF key \in DOMAIN fm.result.top THEN fm.result.top[key] ELSE BoolValue(FALSE)

\* parseArticle, lines 72-92 (the article is dropped when found is FALSE)
parseArticle(vlt, file) ==
    LET fm == parseFrontmatter(SplitOn(vlt[file], "\n"))
    IN  [found |-> fm.found,
         file  |-> file,
         title |-> IF Truthy(TopField(fm, "title")) THEN TopField(fm, "title")
                   ELSE StringValue(BaseName(file)),
         date  |-> IF Truthy(TopField(fm, "date")) THEN TopField(fm, "date")
                   ELSE StringValue(<<>>),
         tags  |-> IF Truthy(TopField(fm, "tags")) THEN TopField(fm, "tags")
                   ELSE ArrayValue(<<>>),
         draft |-> TopField(fm, "draft") = BoolValue(TRUE)]

\* the dates of the model, in the order localeCompare gives them
DateOrder == << <<>>, <<"2023-05-01">>, <<"2024-01-01">> >>

DateRank(info) == CHOOSE r \in 1..Len(DateOrder) : DateOrder[r] = info.date.s

\* articles.sort((a, b) => b.date.localeCompare(a.date)): stable, newest first
RECURSIVE InsertByDate(_, _)
InsertByDate(sorted, info) ==
    IF sorted = <<>> THEN <<info>>
    ELSE IF DateRank(Head(sorted)) >= DateRank(info)
    THEN <<Head(sorted)>> \o InsertByDate(Tail(sorted), info)
    ELSE <<info>> \o sorted

RECURSIVE SortByDate(_)
SortByDate(infos) ==
    IF infos = <<>> THEN <<>>
    ELSE InsertByDate(SortByDate(SubSeq(infos, 1, Len(infos) - 1)), infos[Len(infos)])

\* getArticles, lines 24-67
getArticles(vlt, cfg) ==
    LET basePath == ArticlesBasePath(cfg.obsidianPostsPath)
        Keep(f) == f \in DOMAIN vlt /\ IsMarkdown(f) /\ StartsWith(f, basePath)
        files0 == SelectSeq(VaultOrder, Keep)
        infos == SelectSeq([x \in 1..Len(files0) |-> parseArticle(vlt, files0[x])],
                           LAMBDA info : info.found)
    IN  IF ~IsFolder(vlt, basePath) THEN <<>> ELSE SortByDate(infos)

\* an article with a metadata block: title, date, and a body
Fronted(title, date) ==
    <<"+++", "\n", "title", " ", "=", " ">> \o Quoted(title) \o <<"\n">>
      \o (IF date = <<>> THEN <<>>
          ELSE <<"date", " ", "=", " ", "\"">> \o date \o <<"\"", "\n">>)
      \o <<"+++", "\n", "body">>

ListedDocs == {Fronted("t", <<"2023-05-01">>), Fronted("t", <<"2024-01-01">>),
               Fronted("a", <<>>), <<"body">>}

ListVaultChoices ==
    PartialMaps(
        (<<"posts", "/", "post", ".md">> :> ListedDocs)
     @@ (<<"posts", "/", "sub", "/", "post", ".md">> :> ListedDocs)
     @@ (<<"posts", "/", "_index", ".md">> :> ListedDocs)
     @@ (<<"posts", "/", "other", ".md">> :> {Fronted("t", <<"2023-05-01">>)}))

PostsPathChoices ==
    {DefaultPostsPath, <<"posts">>, VaultBasePath \o <<"/", "posts">>}

InitList ==
    /\ settings \in [obsidianPostsPath : PostsPathChoices,
                     zolaProjectPath : {<<>>},
                     syncStrategy : {"two-way"},
                     obsidianImagesPath : {DefaultImagesPath},
                     zolaImagesPath : {DefaultZolaImages}]
    /\ vault \in ListVaultChoices
    /\ disk = [x \in {} |-> <<>>]
    /\ diskDirs = {}
    /\ refused = {}
    /\ pc = "Idle"
    /\ direction = "none"
    /\ files = <<>>
    /\ idx = 1
    /\ syncCount = 0
    /\ errorCount = 0
    /\ outcome = <<>>
    /\ writes = <<>>
    /\ before = [vault |-> vault, disk |-> disk]
    /\ logs = <<>>
    /\ notice = NoNotice
    /\ runs = 0
    /\ articles = <<>>
    /\ clock = 0
    /\ added = <<>>
    /\ vaultWrites = <<>>
    /\ inflight = <<>>
    /\ saved = NoLogsKey
    /\ settingsLogs = NoLogsKey
    /\ loading = LoadDone

\* the article view asks for the list
ListArticles ==
    /\ articles' = getArticles(vault, settings)
    /\ UNCHANGED <<linkVars, fmVars, hostVars, saved, settings, vault, disk, diskDirs, refused, pc,
                   direction, files, idx, syncCount, errorCount, outcome, writes,
                   before, logs, notice, runs, clock, added, vaultWrites>>

NextList == ListArticles

ListInit == InitList /\ LinkAtRest /\ FMAtRest

SpecList == ListInit /\ [][NextList]_vars

(***************************************************************************)
(* The log manager on its own: addLog and clearLogs called in any order.   *)
(***************************************************************************)
MaxLogCalls == 102

\* what the callers of addLog pass (an entry without its timestamp)
LogInputs == {[action |-> "create-article", summary |-> 0, details |-> <<>>]}

\* an entry a former session persisted
OldEntry == [timestamp |-> -1, action |-> "sync-push", summary |-> 1,
             details |-> <<<<"post", ".md">>>>]

\* the documents saveData may have left behind: none or one written by
\* saveSettings before any log existed (no logs key), or one written by
\* saveLogs
PersistedChoices == {NoLogsKey, SavedLogs(<<>>), SavedLogs(<<OldEntry>>)}

PostsPathInputs == {DefaultPostsPath, <<"posts">>}

\* onload: loadSettings (lines 102-104) copies every key of the persisted
\* document into settings, the logs key included; the LogManager constructor
\* (lines 16-20) starts loadLogs
Loaded(doc) ==
    /\ settings = [obsidianPostsPath |-> DefaultPostsPath, zolaProjectPath |-> <<>>,
                   syncStrategy |-> "two-way", obsidianImagesPath |-> DefaultImagesPath,
                   zolaImagesPath |-> DefaultZolaImages]
    /\ vault = [x \in {} |-> <<>>]
    /\ disk = [x \in {} |-> <<>>]
    /\ diskDirs = {}
    /\ refused = {}
    /\ pc = "Idle"
    /\ direction = "none"
    /\ files = <<>>
    /\ idx = 1
    /\ syncCount = 0
    /\ errorCount = 0
    /\ outcome = <<>>
    /\ writes = <<>>
    /\ before = [vault |-> vault, disk |-> disk]
    /\ notice = NoNotice
    /\ runs = 0
    /\ articles = <<>>
    /\ clock = 0
    /\ vaultWrites = <<>>
    /\ inflight = <<>>
    /\ saved = doc
    /\ settingsLogs = doc

\* the state once loadLogs has completed with no call in between
InitLog ==
    \E doc \in PersistedChoices :
        /\ Loaded(doc)
        /\ logs = doc.logs
        /\ added = doc.logs
        /\ loading = LoadDone

\* addLog, lines 25-39
AddLog ==
    /\ clock < MaxLogCalls
    /\ \E log \in LogInputs :
          LET entry == [timestamp |-> clock, action |-> log.action,
                        summary |-> log.summary, details |-> log.details]
          IN  /\ logs' = AddedLog(logs, entry)
              /\ added' = <<entry>> \o added
    /\ saved' = SavedLogs(logs')
    /\ clock' = clock + 1
    /\ UNCHANGED <<linkVars, fmVars, hostVars, settings, vault, disk, diskDirs, refused, pc,
                   direction, files, idx, syncCount, errorCount, outcome, writes,
                   before, notice, runs, articles, vaultWrites>>

\* clearLogs, lines 66-69
ClearLogs ==
    /\ logs' = <<>>
    /\ added' = <<>>
    /\ saved' = SavedLogs(logs')
    /\ UNCHANGED <<linkVars, fmVars, hostVars, settings, vault, disk, diskDirs, refused, pc,
                   direction, files, idx, syncCount, errorCount, outcome, writes,
                   before, notice, runs, articles, clock, vaultWrites>>

\* the onChange handler of a setting (settingTab.ts lines 50-53) assigns the
\* field and calls saveSettings (lines 106-108), which writes the settings
\* object: its logs key is the one loadSettings copied
SaveSettings ==
    /\ \E value \in PostsPathInputs :
          settings' = [settings EXCEPT !.obsidianPostsPath = value]
    /\ saved' = settingsLogs
    /\ UNCHANGED <<linkVars, fmVars, hostVars, vault, disk, diskDirs, refused, pc,
                   direction, files, idx, syncCount, errorCount, outcome, writes,
                   before, logs, notice, runs, articles, clock, added, vaultWrites>>

NextLog == AddLog \/ ClearLogs \/ SaveSettings

LogInit == InitLog /\ LinkAtRest /\ FMAtRest

SpecLog == LogInit /\ [][NextLog]_vars

(***************************************************************************)
(* The load the LogManager constructor starts and does not await: loadData *)
(* resolves with the document as it is then, and the continuation assigns  *)
(* its logs key later; addLog calls run in between.                        *)
(***************************************************************************)
InitLoad ==
    \E doc \in PersistedChoices :
        /\ Loaded(doc)
        /\ logs = <<>>
        /\ added = <<>>
        /\ loading = [stage |-> "started", data |-> NoLogsKey]

\* loadLogs, line 104: loadData reads the document
LoadRead ==
    /\ loading.stage = "started"
    /\ loading' = [stage |-> "read", data |-> saved]
    /\ UNCHANGED <<linkVars, fmVars, inflight, settingsLogs, saved, settings, vault,
                   disk, diskDirs, refused, pc, direction, files, idx, syncCount,
                   errorCount, outcome, writes, before, logs, notice, runs,
                   articles, clock, added, vaultWrites>>

\* loadLogs, line 105: this.logs = data?.logs || []
LoadAssign ==
    /\ loading.stage = "read"
    /\ logs' = loading.data.logs
    /\ loading' = LoadDone
    /\ UNCHANGED <<linkVars, fmVars, inflight, settingsLogs, saved, settings, vault,
                   disk, diskDirs, refused, pc, direction, files, idx, syncCount,
                   errorCount, outcome, writes, before, notice, runs,
                   articles, clock, added, vaultWrites>>

NextLoad == LoadRead \/ LoadAssign \/ AddLog

LoadInit == InitLoad /\ LinkAtRest /\ FMAtRest

SpecLoad == LoadInit /\ [][NextLoad]_vars

\* the steps of a batch are the continuations of awaited file operations,
\* which the event loop runs once they are ready
(***************************************************************************)
(* The engine over the forms a configured directory and the names of the   *)
(* entries of the two trees can take.                                      *)
(***************************************************************************)
ConfiguredPostsPaths ==
    {DefaultPostsPath, <<"posts">>, VaultBasePath \o <<"/", "posts">>,
     <<"/", "My", " ", "Vault", "/", "posts">>}

ConfiguredImagesPaths == {DefaultImagesPath, <<"images", "/", "posts">>}

TreeVaultChoices ==
    PartialMaps(
        (<<"posts", "/", "post", ".md">> :> {DocA})
     @@ (<<"posts", "/", "sub", "/", "post", ".md">> :> {DocB})
     @@ (<<"posts", "-old", "/", "kept", ".md">> :> {DocB})
     @@ (<<"images", "/", "posts", "-old", "/", "old", ".png">> :> {Image1}))

TreeDiskChoices ==
    PartialMaps(
        (PathJoin(ZolaContentPath, <<".draft", ".md">>) :> {SiteNative})
     @@ (PathJoin(ZolaContentPath, <<"Index", ".md">>) :> {SiteNative})
     @@ (PathJoin(ZolaContentPath, <<"index", ".md", ".md">>) :> {SiteNative})
     @@ (PathJoin(ZolaContentPath, <<"notes", ".txt">>) :> {SiteNative})
     @@ (PathJoin(ZolaContentPath, <<"post", ".md">>) :> {SiteNative}))

InitTree ==
    /\ settings \in [obsidianPostsPath : ConfiguredPostsPaths,
                     zolaProjectPath : {ZolaContentPath},
                     syncStrategy : {"two-way"},
                     obsidianImagesPath : ConfiguredImagesPaths,
                     zolaImagesPath : {DefaultZolaImages}]
    /\ vault \in TreeVaultChoices
    /\ disk \in TreeDiskChoices
    /\ diskDirs = {DirOf(ZolaContentPath), DirOf(DefaultZolaImages)}
    /\ refused = {}
    /\ EngineIdle

TreeInit == InitTree /\ LinkAtRest /\ FMAtRest

SpecTree == TreeInit /\ [][Next]_vars

(***************************************************************************)
(* The callers of the engine: the command callbacks and the buttons of the *)
(* view call syncArticles, which calls pushToZola or pullFromZola.  Each   *)
(* invocation is an async function: it runs up to its next await and the   *)
(* invocations in flight take their steps in any order.                    *)
(***************************************************************************)
MaxGestures == 2

\* the notice of a request that validation rejects, "none" when it passes
Rejection(dir) ==
    IF settings.zolaProjectPath = <<>> THEN "configure-path"
    ELSE IF dir = "pull" /\ settings.syncStrategy # "two-way" THEN "one-way-cannot-pull"
    ELSE IF dir = "pull" /\ DirOf(settings.zolaProjectPath) \notin diskDirs THEN "path-missing"
    ELSE "none"

InitGestures ==
    /\ InitEngine
    /\ settings.zolaProjectPath # <<>>
    /\ diskDirs = {DirOf(ZolaContentPath), DirOf(DefaultZolaImages)}
    /\ Cardinality(DOMAIN vault) = 5
    /\ vault[<<"posts", "/", "post", ".md">>] = DocA
    /\ refused \subseteq {<<"post", ".md">>}

\* a command callback or a button: syncArticles(dir), lines 200-206 of the
\* plugin, up to the first await of the operation it calls
SyncGesture ==
    /\ Len(inflight) < MaxGestures
    /\ \E dir \in {"push", "pull"} :
          LET candidates == IF dir = "push" THEN PushCandidates(vault, settings)
                            ELSE getZolaFiles(disk, diskDirs, settings.zolaProjectPath)
          IN  IF Rejection(dir) # "none"
              THEN /\ notice' = [kind |-> Rejection(dir), success |-> 0, failed |-> 0]
                   /\ inflight' = Append(inflight,
                          [direction |-> dir, files |-> <<>>, idx |-> 1, syncCount |-> 0,
                           errorCount |-> 0, stage |-> "Returned"])
              ELSE /\ notice' = [kind |-> dir \o "-started", success |-> 0, failed |-> 0]
                   /\ inflight' = Append(inflight,
                          [direction |-> dir, files |-> candidates, idx |-> 1,
                           syncCount |-> 0, errorCount |-> 0,
                           stage |-> IF candidates = <<>> THEN "Images" ELSE "PerFileSync"])
    /\ UNCHANGED <<linkVars, fmVars, settings, vault, disk, diskDirs, refused, pc,
                   direction, files, idx, syncCount, errorCount, outcome, writes,
                   before, logs, runs, articles, clock, added, vaultWrites,
                   saved, settingsLogs, loading>>

\* the invocation b after the file at idx: counted as synced or as failed
Advanced(b, ok) ==
    [inflight EXCEPT ![b] =
        [@ EXCEPT !.idx = @ + 1,
                  !.syncCount = IF ok THEN @ + 1 ELSE @,
                  !.errorCount = IF ok THEN @ ELSE @ + 1,
                  !.stage = IF inflight[b].idx = Len(inflight[b].files)
                            THEN "Images" ELSE "PerFileSync"]]

\* one iteration of the loop of invocation b (lines 79-87 or 138-146)
GestureFile ==
    \E b \in 1..Len(inflight) :
        /\ inflight[b].stage = "PerFileSync"
        /\ LET file == inflight[b].files[inflight[b].idx]
           IN  IF inflight[b].direction = "push"
               THEN LET content == convertImageLinks(vault[file])
                        targetPath == PathJoin(settings.zolaProjectPath, FileName(file))
                    IN  /\ IF targetPath \in DOMAIN disk /\ disk[targetPath] = content
                           THEN /\ inflight' = Advanced(b, TRUE)
                                /\ UNCHANGED disk
                           ELSE IF CanWrite(diskDirs, refused, targetPath)
                           THEN /\ disk' = Put(disk, targetPath, content)
                                /\ inflight' = Advanced(b, TRUE)
                           ELSE /\ inflight' = Advanced(b, FALSE)
                                /\ UNCHANGED disk
                        /\ UNCHANGED vault
               ELSE LET content == convertImageLinksToObsidian(disk[file])
                        targetPath == PullTarget(settings, file.name)
                    IN  /\ IF FileName(targetPath) \notin refused
                           THEN /\ vault' = Put(vault, targetPath, content)
                                /\ inflight' = Advanced(b, TRUE)
                           ELSE /\ inflight' = Advanced(b, FALSE)
                                /\ UNCHANGED vault
                        /\ UNCHANGED disk
    /\ UNCHANGED <<linkVars, fmVars, settings, diskDirs, refused, pc,
                   direction, files, idx, syncCount, errorCount, outcome, writes,
                   before, logs, notice, runs, articles, clock, added, vaultWrites,
                   saved, settingsLogs, loading>>

\* the image step of invocation b (line 90 or 149)
GestureImages ==
    /\ \E b \in 1..Len(inflight) :
        /\ inflight[b].stage = "Images"
        /\ inflight' = [inflight EXCEPT ![b].stage = "Summarizing"]
    /\ LET imageFiles == ImageCandidates(vault, settings)
           zolaImagesPath == settings.zolaImagesPath
       IN  IF zolaImagesPath = <<>> \/ settings.obsidianImagesPath = <<>>
              \/ imageFiles = <<>>
           THEN UNCHANGED <<disk, diskDirs>>
           ELSE /\ diskDirs' = diskDirs \cup {DirOf(zolaImagesPath)}
                /\ disk' = CopyImages(disk, vault, imageFiles, zolaImagesPath, refused)
    /\ UNCHANGED <<linkVars, fmVars, settings, vault, refused, pc,
                   direction, files, idx, syncCount, errorCount, outcome, writes,
                   before, logs, notice, runs, articles, clock, added, vaultWrites,
                   saved, settingsLogs, loading>>

\* the notice and the log entry of invocation b, which then returns
GestureSummarize ==
    /\ \E b \in 1..Len(inflight) :
        /\ inflight[b].stage = "Summarizing"
        /\ inflight' = [inflight EXCEPT ![b].stage = "Returned"]
        /\ notice' = [kind |-> inflight[b].direction \o "-complete",
                      success |-> inflight[b].syncCount,
                      failed |-> inflight[b].errorCount]
        /\ LET entry == [timestamp |-> clock,
                         action |-> "sync-" \o inflight[b].direction,
                         summary |-> inflight[b].syncCount,
                         details |-> [x \in 1..Len(inflight[b].files) |->
                                         IF inflight[b].direction = "push"
                                         THEN BaseName(inflight[b].files[x])
                                         ELSE inflight[b].files[x].name]]
           IN  /\ logs' = AddedLog(logs, entry)
               /\ added' = <<entry>> \o added
    /\ saved' = SavedLogs(logs')
    /\ clock' = clock + 1
    /\ UNCHANGED <<linkVars, fmVars, settings, vault, disk, diskDirs, refused, pc,
                   direction, files, idx, syncCount, errorCount, outcome, writes,
                   before, runs, articles, vaultWrites, settingsLogs, loading>>

NextGestures == SyncGesture \/ GestureFile \/ GestureImages \/ GestureSummarize

GesturesInit == InitGestures /\ LinkAtRest /\ FMAtRest

SpecGestures == GesturesInit /\ [][NextGestures]_vars

\* (checked from the initial states with a full vault and a configured
\* site root)
LiveInit ==
    /\ Init
    /\ settings.zolaProjectPath # <<>>
    /\ Cardinality(DOMAIN vault) = 5
    /\ vault[<<"posts", "/", "post", ".md">>] = DocA

SpecLive ==
    /\ LiveInit /\ [][Next]_vars
    /\ WF_vars(PushFile) /\ WF_vars(PullFile)
    /\ WF_vars(SyncImages) /\ WF_vars(Summarize)

LinkInit == InitLink /\ FMAtRest /\ EngineAtRest

SpecLink == LinkInit /\ [][NextLink]_vars

FMInit == InitFM /\ LinkAtRest /\ EngineAtRest

SpecFM == FMInit /\ [][NextFM]_vars

\* C10: when the parsed block has a taxonomies section with a tags field,
\* whatever its value, the top-level tags of the result is that value.
C10_MetadataPromotion ==
    (/\ parsed /\ frontmatter.found
     /\ "taxonomies" \in DOMAIN frontmatter.result.tables
     /\ "tags" \in DOMAIN frontmatter.result.tables["taxonomies"])
    => /\ "tags" \in DOMAIN frontmatter.result.top
       /\ frontmatter.result.top["tags"] = frontmatter.result.tables["taxonomies"]["tags"]

(***************************************************************************)
(* Claims about the sync engine (checked under Spec).                      *)
(***************************************************************************)
Count(seq, v) == Cardinality({k \in 1..Len(seq) : seq[k] = v})

\* where the candidate c of the batch in progress is written
Destination(c) ==
    IF direction = "push" THEN PathJoin(settings.zolaProjectPath, FileName(c))
    ELSE PullTarget(settings, c.name)

Present(c) ==
    IF direction = "push" THEN Destination(c) \in DOMAIN disk
    ELSE Destination(c) \in DOMAIN vault

DestinationName(c) == IF direction = "push" THEN FileName(c) ELSE c.name

\* the write of candidate c is not one the environment makes fail
Writable(c) ==
    /\ DestinationName(c) \notin refused
    /\ direction = "push" => DirOf(settings.zolaProjectPath) \in diskDirs

\* C1: a push that follows a completed push writes no file of the site tree.
C1_PushIdempotent ==
    (/\ pc = "Summarizing" /\ direction = "push"
     /\ logs # <<>> /\ Head(logs).action = "sync-push")
    => writes = <<>>

\* C2: when the loop over the N candidates of a batch is over, every
\* candidate has been processed, the candidates that did not fail are
\* present at the destination, only writes the environment refuses failed
\* (a refused name, a missing site root), and the counters
\* (and then the notice) are N-K successes and K failures.
C2_PartialFailureContainment ==
    /\ pc \in {"Images", "Summarizing"} =>
         /\ Len(outcome) = Len(files)
         /\ syncCount = Count(outcome, "ok")
         /\ errorCount = Count(outcome, "failed")
         /\ syncCount + errorCount = Len(files)
         /\ \A k \in 1..Len(files) :
               /\ outcome[k] = "ok" => Present(files[k])
               /\ Writable(files[k]) => outcome[k] = "ok"
    /\ (pc = "Idle" /\ notice.kind \in {"push-complete", "pull-complete"}) =>
         /\ notice.success = Count(outcome, "ok")
         /\ notice.failed = Count(outcome, "failed")
         /\ notice.success + notice.failed = Len(files)

C2_Witness ==
    /\ pc = "Idle" /\ notice.kind = "push-complete"
    /\ Len(files) = 3
    /\ outcome = <<"failed", "failed", "ok">>
    /\ notice.success = 1 /\ notice.failed = 2
    /\ PathJoin(settings.zolaProjectPath, <<"Index", ".md">>) \in DOMAIN disk
    /\ PathJoin(settings.zolaProjectPath, <<"Index", ".md">>) \notin DOMAIN before.disk

InImageDir(t) == t.dir = DirOf(settings.zolaImagesPath)

\* C3: during and after a push, every image that was in the site image
\* directory when the push began has the content it had then, and the
\* images the push wrote did not exist then.
C3_PushImageFirstWriteWins ==
    direction = "push" =>
        /\ \A t \in DOMAIN before.disk :
              InImageDir(t) => t \in DOMAIN disk /\ disk[t] = before.disk[t]
        /\ \A k \in 1..Len(writes) :
              InImageDir(writes[k]) => writes[k] \notin DOMAIN before.disk

C3_Witness ==
    /\ pc = "Summarizing" /\ direction = "push"
    /\ Len(ImageCandidates(vault, settings)) = 1
    /\ LET v == ImageCandidates(vault, settings)[1]
           t == PathJoin(settings.zolaImagesPath, FileName(v))
       IN  /\ t \in DOMAIN before.disk
           /\ before.disk[t] # vault[v]
           /\ disk[t] = before.disk[t]

\* C4: after the image step of a pull, an image present in both trees with
\* different contents has the site content in the vault, and a site image
\* absent from the vault has been copied to the vault image directory.
C4_PullImagesChangeAware ==
    (pc = "Summarizing" /\ direction = "pull") =>
        /\ \A k \in 1..Len(ImageCandidates(before.vault, settings)) :
              LET v == ImageCandidates(before.vault, settings)[k]
                  t == PathJoin(settings.zolaImagesPath, FileName(v))
              IN  (t \in DOMAIN before.disk /\ before.disk[t] # before.vault[v])
                      => vault[v] = before.disk[t]
        /\ \A t \in DOMAIN before.disk :
              InImageDir(t) =>
                  LET v == VaultRelative(settings.obsidianImagesPath) \o t.name
                  IN  v \in DOMAIN vault /\ vault[v] = before.disk[t]

\* C5: no candidate of a push is named _index.md or index.md, whatever the
\* case of the letters.
C5_ReservedFileExclusion ==
    (direction = "push" /\ pc # "Idle") =>
        \A k \in 1..Len(files) : Lower(FileName(files[k])) \notin PushSystemFiles

\* what a request leaves alone when it is rejected: the two trees, the
\* directories, the log and the batch state
NothingTouched ==
    /\ pc' = "Idle"
    /\ UNCHANGED <<vault, disk, diskDirs, logs, added, files, writes, vaultWrites>>

PullNotices == {"pull-started", "pull-complete", "path-missing"}

\* C11: when the policy is not two-way no pull batch exists and the site
\* root is never probed for a pull; the rejected pull leaves both trees, the
\* directories and the log as they were.  (Push runs under both policies:
\* see the witness.)
C11_PullGatedByPolicy ==
    /\ [](settings.syncStrategy # "two-way" =>
             direction # "pull" /\ notice.kind \notin PullNotices)
    /\ [][notice'.kind = "one-way-cannot-pull" =>
             settings.syncStrategy # "two-way" /\ NothingTouched]_vars

C11_Witness ==
    /\ settings.syncStrategy = "one-way"
    /\ notice.kind = "one-way-cannot-pull"
    /\ logs # <<>> /\ Head(logs).action = "sync-push"
    /\ writes # <<>>
    /\ vault = before.vault

\* C12: with an empty site root every request ends at once: no batch
\* begins, no article, image or directory is written and the log does not
\* grow.
C12_ConfigErrorWritesNothing ==
    [][settings.zolaProjectPath = <<>> =>
          /\ NothingTouched
          /\ notice'.kind = "configure-path"]_vars

C12_Witness ==
    /\ settings.zolaProjectPath = <<>>
    /\ settings.syncStrategy = "two-way"
    /\ notice.kind = "configure-path"
    /\ runs = 2
    /\ PushCandidates(vault, settings) # <<>>
    /\ ImageCandidates(vault, settings) # <<>>
    /\ disk = before.disk /\ logs = <<>>

\* C13: while the configured site root is not a directory of the disk, a
\* request ends at once: no enumeration, no article written, no image
\* copied, no directory created.
C13_MissingRootFailsFast ==
    [][(/\ settings.zolaProjectPath # <<>>
        /\ DirOf(settings.zolaProjectPath) \notin diskDirs) => NothingTouched]_vars

\* C14: no step of a push or a pull removes a file of the vault, a file of
\* the site or a directory: the files of each tree only grow.
C14_AdditiveOnly ==
    [][/\ DOMAIN vault \subseteq DOMAIN vault'
       /\ DOMAIN disk \subseteq DOMAIN disk'
       /\ diskDirs \subseteq diskDirs']_vars

\* a push and then a pull have completed, both wrote, and the site still has
\* an article that no file of the vault had when the push ran, as the vault
\* has one that was never a pull candidate
C14_Witness ==
    /\ pc = "Idle" /\ notice.kind = "pull-complete"
    /\ Len(logs) = 2 /\ logs[2].action = "sync-push"
    /\ logs[2].details = <<<<"post">>>>
    /\ vaultWrites # <<>>
    /\ PathJoin(settings.zolaProjectPath, <<"other", ".md">>) \in DOMAIN disk
    /\ PathJoin(settings.zolaProjectPath, <<"post", ".md">>) \in DOMAIN disk
    /\ <<"posts", "/", "_index", ".md">> \in DOMAIN vault

\* C16: the log grows only at the end of a batch, after the loop over the
\* articles and the image step, by one entry whose kind is that of the
\* batch; every batch that began ends with that entry, and a request
\* rejected in validation adds none.
C16_OneLogPerRun ==
    [][/\ logs' # logs =>
             /\ pc = "Summarizing" /\ pc' = "Idle"
             /\ Len(outcome) = Len(files)
             /\ Len(logs') = Len(logs) + 1
             /\ Tail(logs') = logs
             /\ Head(logs').action = "sync-" \o direction
             /\ direction \in {"push", "pull"}
       /\ (pc # "Idle" /\ pc' = "Idle") => Len(logs') = Len(logs) + 1
       /\ (pc = "Idle" /\ pc' = "Idle") => logs' = logs]_vars

C16_Witness ==
    /\ pc = "Idle" /\ runs = 2
    /\ Len(logs) = 2
    /\ logs[1].action = "sync-pull" /\ logs[2].action = "sync-push"
    /\ logs[2].summary = 0 /\ logs[2].details = <<>>

\* C18: a pull writes a vault article only when it was absent when the
\* batch began or differs from what the batch began with.
C18_PullSkipsIdentical ==
    direction = "pull" =>
        \A k \in 1..Len(vaultWrites) :
            \/ vaultWrites[k] \notin DOMAIN before.vault
            \/ before.vault[vaultWrites[k]] # vault[vaultWrites[k]]

\* C19: the step of a push on one candidate writes nothing when the file of
\* that name under the site root holds the outbound-transcoded text; else,
\* when the candidate succeeds, that file and no other is replaced by the
\* whole transcoded text.
C19_PushChangeDetection ==
    [][(pc = "PerFileSync" /\ direction = "push") =>
          LET content == convertImageLinks(vault[files[idx]])
              targetPath == PathJoin(settings.zolaProjectPath, FileName(files[idx]))
          IN  IF targetPath \in DOMAIN disk /\ disk[targetPath] = content
              THEN disk' = disk /\ writes' = writes /\ outcome'[idx] = "ok"
              ELSE outcome'[idx] = "ok" =>
                      /\ disk' = Put(disk, targetPath, content)
                      /\ writes' = Append(writes, targetPath)]_vars

\* of two candidates the first was found identical and skipped, the second
\* replaced the same existing file
C19_Witness ==
    /\ direction = "push" /\ pc = "Images"
    /\ Len(files) = 2 /\ outcome = <<"ok", "ok">>
    /\ Len(writes) = 1
    /\ writes[1] \in DOMAIN before.disk
    /\ before.disk[writes[1]] = convertImageLinks(vault[files[1]])
    /\ disk[writes[1]] = convertImageLinks(vault[files[2]])
    /\ disk[writes[1]] # before.disk[writes[1]]

\* C20: every entry of the log has as many detail lines as files the batch
\* synced (its success count): a failed candidate has no detail line.
C20_LogDetailsMatchSynced ==
    \A k \in 1..Len(logs) : Len(logs[k].details) = logs[k].summary

\* C22: a batch that has begun leads to the end of that batch: the plugin
\* is idle again, the notice is the summary of the batch and every
\* candidate has an outcome, whatever writes the environment refuses.
C22_BatchRunsToCompletion ==
    (pc # "Idle") ~>
        (/\ pc = "Idle"
         /\ notice.kind = direction \o "-complete"
         /\ Len(outcome) = Len(files)
         /\ notice.success + notice.failed = Len(files))

\* a completed push in which an article and the image both failed and
\* another article was still written
C22_Witness ==
    /\ pc = "Idle" /\ notice.kind = "push-complete"
    /\ notice.failed >= 1 /\ notice.success >= 1
    /\ outcome[1] = "failed" /\ outcome[Len(files)] = "ok"
    /\ <<"pic", ".png">> \in refused
    /\ ImageCandidates(vault, settings) # <<>>
    /\ PathJoin(settings.zolaImagesPath, <<"pic", ".png">>) \notin DOMAIN disk

\* the image candidates that the image step did not bring to the site
FailedImages ==
    {k \in 1..Len(ImageCandidates(vault, settings)) :
        PathJoin(settings.zolaImagesPath,
                 FileName(ImageCandidates(vault, settings)[k])) \notin DOMAIN disk}

\* C25: the failure count of the summary counts every candidate that
\* failed, the image candidates included.
C25_EveryFailureCounted ==
    /\ pc = "Summarizing" =>
          errorCount = Count(outcome, "failed") + Cardinality(FailedImages)
    /\ (pc = "Idle" /\ notice.kind \in {"push-complete", "pull-complete"}) =>
          notice.failed = Count(outcome, "failed") + Cardinality(FailedImages)

\* C29: no step of a push changes the vault and no step of a pull changes
\* a file or a directory of the site.
C29_DirectionFrame ==
    [][/\ (direction = "push" /\ pc # "Idle") => vault' = vault
       /\ (direction = "pull" /\ pc # "Idle") => (disk' = disk /\ diskDirs' = diskDirs)]_vars

\* C30: when every candidate of a push succeeded, the site file named as a
\* candidate holds the outbound transcoding of that candidate.
C30_SuccessfulPushPostState ==
    (/\ direction = "push" /\ pc \in {"Images", "Summarizing"}
     /\ errorCount = 0) =>
        \A k \in 1..Len(files) :
            LET targetPath == PathJoin(settings.zolaProjectPath, FileName(files[k]))
            IN  /\ targetPath \in DOMAIN disk
                /\ disk[targetPath] = convertImageLinks(vault[files[k]])

(***************************************************************************)
(* Claims about the candidates (checked under SpecTree).                   *)
(***************************************************************************)
\* file f lies in directory dir or in one of its sub-directories
IsUnder(f, dir) == StartsWith(f, DirOf(dir) \o <<"/">>)

\* C23: the base path a push enumerates under is the configured posts path
\* without the base path of the vault when it begins with it, else without
\* one leading separator, else as it is: the base path of getArticles.
C23_PathNormalization ==
    (direction = "push" /\ pc # "Idle") =>
        /\ VaultRelative(settings.obsidianPostsPath)
             = ArticlesBasePath(settings.obsidianPostsPath)
        /\ files = PushCandidates(before.vault,
                       [settings EXCEPT !.obsidianPostsPath =
                            ArticlesBasePath(settings.obsidianPostsPath)])

\* C24: every article candidate of a push lies under the normalized posts
\* directory and every image candidate under the configured image
\* directory.
C24_CandidatesUnderDirectory ==
    /\ (direction = "push" /\ pc # "Idle") =>
          \A k \in 1..Len(files) :
              IsUnder(files[k], VaultRelative(settings.obsidianPostsPath))
    /\ pc = "Images" =>
          \A k \in 1..Len(ImageCandidates(vault, settings)) :
              IsUnder(ImageCandidates(vault, settings)[k],
                      VaultRelative(settings.obsidianImagesPath))

\* the entries of the site root getZolaFiles has to return
ExpectedPullNames(dsk, zolaPath) ==
    {t.name : t \in {u \in DOMAIN dsk :
        /\ u.dir = DirOf(zolaPath)
        /\ u.name[Len(u.name)] = ".md"
        /\ u.name[1] \notin HiddenStems
        /\ Lower(u.name) \notin PullSystemFiles}}

\* C26: the candidates of a pull are exactly the regular files of the site
\* root whose name ends in .md, is not hidden and is not a reserved index
\* name in any letter case.
C26_PullCandidateSet ==
    (direction = "pull" /\ pc # "Idle") =>
        {files[k].name : k \in 1..Len(files)}
            = ExpectedPullNames(before.disk, settings.zolaProjectPath)

(***************************************************************************)
(* Claims about the log manager (checked under SpecLog).                   *)
(***************************************************************************)
Min(a, b) == IF a <= b THEN a ELSE b

\* C15: the log never holds more than LogCap entries; it is the newest
\* LogCap (or fewer) of the entries added since it was last cleared, newest
\* first, so the entry a full log loses is its oldest one.
C15_LogCap ==
    /\ Len(logs) <= LogCap
    /\ logs = SubSeq(added, 1, Min(Len(added), LogCap))
    /\ \A i, j \in 1..Len(logs) : i < j => logs[i].timestamp > logs[j].timestamp

C15_Witness ==
    /\ Len(added) = LogCap + 1
    /\ Len(logs) = LogCap
    /\ logs[1] = added[1]
    /\ logs[LogCap] = added[LogCap]
    /\ \A i \in 1..Len(logs) : logs[i] # added[LogCap + 1]
    /\ added[LogCap + 1].timestamp < logs[LogCap].timestamp

InLog(e, lg) == \E i \in 1..Len(lg) : lg[i] = e

\* C27: after any sequence of addLog, clearLogs and saveSettings the logs
\* key of the persisted document equals the in-memory log (a document
\* without the key counting as an empty log); saveSettings, which leaves the
\* in-memory log alone, then leaves the persisted entries alone as well.
C27_PersistedLogConsistent == saved.logs = logs

(***************************************************************************)
(* Claims about the load of the log (checked under SpecLoad).              *)
(***************************************************************************)
\* C28: once loadLogs has completed, every entry addLog added and every
\* entry persisted before the session is in the in-memory log and in the
\* persisted log (as long as they all fit under the cap).
C28_NoEntryLostToLoad ==
    (loading.stage = "done" /\ Len(added) + Len(settingsLogs.logs) <= LogCap) =>
        /\ \A i \in 1..Len(added) : InLog(added[i], logs) /\ InLog(added[i], saved.logs)
        /\ \A i \in 1..Len(settingsLogs.logs) :
              /\ InLog(settingsLogs.logs[i], logs)
              /\ InLog(settingsLogs.logs[i], saved.logs)

(***************************************************************************)
(* Claims about the article manager (checked under SpecList).              *)
(***************************************************************************)
\* C17: no article of the list getArticles returned is a reserved index
\* file (_index.md, index.md).
C17_ListingExcludesSystemFiles ==
    \A k \in 1..Len(articles) : Lower(FileName(articles[k].file)) \notin PushSystemFiles

(***************************************************************************)
(* Claims about the callers (checked under SpecGestures).                  *)
(***************************************************************************)
Running == {b \in 1..Len(inflight) : inflight[b].stage # "Returned"}

\* C21: at most one sync invocation is in flight.
C21_SingleBatchInFlight == Cardinality(Running) <= 1

====
